---- MODULE Spec2Model ----
(***************************************************************************)
(* A model of gotype-ish: the two-tier Importer of importer.go and the     *)
(* command-line driver of gotype2.go (getPkgFiles, checkPkgFiles, report,  *)
(* main).                                                                  *)
(*                                                                         *)
(* The Importer is modelled as a call stack of ImportFrom activations.     *)
(* The external collaborators (the fast importer, build.Default.Import,    *)
(* parseFiles, the type checker's own verdict) answer nondeterministically *)
(* the first time they are asked about an input and give the same answer   *)
(* for that input for the rest of the run.                                 *)
(***************************************************************************)
EXTENDS Integers, Sequences, FiniteSets, TLC

\* ------------------------------------------------------------------ bounds
\* Number of ImportFrom calls made from outside the Importer in one run.
MaxCalls == 2
\* Deepest nesting of ImportFrom activations (a cyclic import graph recurses
\* without bound in the code; the model stops pushing at this depth).
MaxDepth == 4

\* ------------------------------------------------------- importer: universe
Paths == {"P", "Q", "R"}

\* Requesting directories (the srcDir argument), as lists of path elements.
Dirs == {<<"a">>, <<"b">>}

\* Importer.cwd, the resolver-wide base directory.
ImporterCwd == <<"cwd">>

\* importer.go:28 without the join: srcDir handed on as it came.
FullDirNoJoin(srcDir) == srcDir

\* pathpkg.Join(i.cwd, srcDir) for the element lists above.
FullDir(srcDir) == ImporterCwd \o srcDir

FullDirs == {FullDir(d) : d \in Dirs}

\* Importer.Import has no directory to give to the fast importer.
NoDir == <<>>

\* buildPkg.Dir: the directory holding a package's files; the type checker
\* hands it to ImportFrom as srcDir for the imports of those files.
PkgDir(p) == IF p = "P" THEN <<"a">> ELSE <<"b">>

\* Import graphs: an acyclic one with a shared dependency, and a cycle.
Diamond == [p \in Paths |->
              IF p = "P" THEN <<"Q", "R">> ELSE IF p = "Q" THEN <<"R">> ELSE <<>>]

Cycle == [p \in Paths |->
              IF p = "P" THEN <<"Q">> ELSE IF p = "Q" THEN <<"P">> ELSE <<>>]

Graphs == {Diamond, Cycle}

\* *types.Package values.  prov tells which path produced the package, typed
\* whether the type check that produced it ended without an error, dir the
\* directory the resolution ran against.
NoPkg == [path |-> "", prov |-> "none", typed |-> FALSE, dir |-> <<>>]

FastPkg(p, fd) == [path |-> p, prov |-> "fast", typed |-> TRUE, dir |-> fd]

SourcePkg(p, fd, ok) == [path |-> p, prov |-> "source", typed |-> ok, dir |-> fd]

NoRet == [valid |-> FALSE, path |-> "", dir |-> <<>>, pkg |-> NoPkg, err |-> "nil",
          hit |-> FALSE, fastOut |-> "none", discOut |-> "none",
          parseOut |-> "none", checkOut |-> "none", snap |-> <<>>, depth |-> 0,
          steps |-> <<>>, entry |-> "none"]

VARIABLES
  \* ---- Importer (importer.go)
  packages,     \* Importer.packages: import path -> package
  stack,        \* the ImportFrom activations, outermost first
  imports,      \* the import graph of the sources on disk
  errHandler,   \* whether Importer.config has an Error handler (check goes on after an error)
  fastRes,      \* answers of mainImporter, by <<path, fullDir>> (NoDir for its Import)
  discRes,      \* answers of build.Default.Import, by <<path, fullDir>>
  parseRes,     \* answers of parseFiles, by path
  typeRes,      \* verdict of the type checker on a package's own declarations
  calls,        \* number of outside calls made so far
  fastCalls,    \* history: invocations of the fast path, per path
  slowCalls,    \* history: invocations of source discovery, per path
  ret,          \* history: what the activation that returned last returned
  \* ---- driver (gotype2.go)
  args,         \* flag.Args(): the path arguments
  usePkgContext,\* -pkg-context
  autoFiles,    \* -a
  workingDir,   \* -w ("" when not given)
  getwdOK,      \* whether os.Getwd succeeds in this process
  dpc,          \* where main is
  pkgPath,      \* main's pkgPath
  targetFile,   \* targetFile: as getPkgFiles returned it, then as checkPkgFiles reassigns it
  unitErr,      \* the error of getPkgFiles ("nil" when none)
  loadCall,     \* history: the packages.Load invocation (config and pattern)
  loaded,       \* history: the errors packages.Load returned in its roots
  pending,      \* root errors not yet handed to report
  out,          \* the lines written to os.Stderr
  errorCount,   \* the global errorCount
  reports,      \* history: every call of report, with its restriction and its outcome
  exitStatus    \* process exit status (Running until the process ends)

ivars == <<packages, stack, imports, errHandler, fastRes, discRes, parseRes, typeRes,
           calls, fastCalls, slowCalls, ret>>

dvars == <<args, usePkgContext, autoFiles, workingDir, getwdOK, dpc, pkgPath, targetFile,
           unitErr, loadCall, loaded, pending, out, errorCount, reports, exitStatus>>

vars == <<ivars, dvars>>

Outcomes == {"ok", "fail"}

\* What a collaborator answers: anything the first time, the same afterwards.
Answers(memo, key) == IF memo[key] = "unk" THEN Outcomes ELSE {memo[key]}

Top == stack[Len(stack)]

NewFrame(p, d) ==
  [path |-> p, dir |-> d, pc |-> "lookup", idx |-> 1, cerr |-> FALSE, pkg |-> NoPkg,
   fastOut |-> "none", discOut |-> "none", parseOut |-> "none", checkOut |-> "none",
   snap |-> packages, steps |-> <<>>]

SetTop(f) == stack' = [stack EXCEPT ![Len(stack)] = f]

\* return pkg, err: pop the activation; a nested activation hands its result
\* to the type check of the caller, which moves on to its next import.
Return(f, pkg, err, hit) ==
  /\ ret' = [valid |-> TRUE, path |-> f.path, dir |-> f.dir, pkg |-> pkg, err |-> err,
             hit |-> hit, fastOut |-> f.fastOut, discOut |-> f.discOut,
             parseOut |-> f.parseOut, checkOut |-> f.checkOut, snap |-> f.snap,
             depth |-> Len(stack), steps |-> f.steps, entry |-> "ImportFrom"]
  /\ stack' = IF Len(stack) = 1 THEN <<>>
              ELSE LET c == stack[Len(stack) - 1]
                   IN Append(SubSeq(stack, 1, Len(stack) - 2),
                             [c EXCEPT !.idx = @ + 1, !.cerr = @ \/ (err # "nil")])

IInit ==
  /\ packages = <<>>
  /\ stack = <<>>
  /\ imports \in Graphs
  /\ errHandler \in BOOLEAN
  /\ fastRes = [k \in Paths \X (FullDirs \cup {NoDir}) |-> "unk"]
  /\ discRes = [k \in Paths \X FullDirs |-> "unk"]
  /\ parseRes = [p \in Paths |-> "unk"]
  /\ typeRes = [p \in Paths |-> "unk"]
  /\ calls = 0
  /\ fastCalls = [p \in Paths |-> 0]
  /\ slowCalls = [p \in Paths |-> 0]
  /\ ret = NoRet

\* return nil, err (importer.go:33, 40): the cache is left as it is.
FailReturnCachesNil(f, err) ==
  /\ packages' = [q \in DOMAIN packages \cup {f.path} |->
                    IF q = f.path THEN NoPkg ELSE packages[q]]
  /\ Return(f, NoPkg, err, FALSE)

FailReturn(f, err) ==
  /\ packages' = packages
  /\ Return(f, NoPkg, err, FALSE)

\* A caller outside the Importer calls ImportFrom(p, d, mode).
Call(p, d) ==
  /\ UNCHANGED dvars
  /\ stack = <<>>
  /\ calls < MaxCalls
  /\ calls' = calls + 1
  /\ stack' = <<NewFrame(p, d)>>
  /\ UNCHANGED <<packages, imports, errHandler, fastRes, discRes, parseRes, typeRes,
                 fastCalls, slowCalls, ret>>

\* importer.go:25-27
CacheNeverFound(p) == FALSE

CacheFound(p) == p \in DOMAIN packages

Lookup ==
  /\ UNCHANGED dvars
  /\ stack # <<>>
  /\ Top.pc = "lookup"
  /\ IF CacheFound(Top.path)
       THEN /\ Return(Top, packages[Top.path], "nil", TRUE)
       ELSE /\ SetTop([Top EXCEPT !.pc = "fast"])
            /\ ret' = ret
  /\ UNCHANGED <<packages, imports, errHandler, fastRes, discRes, parseRes, typeRes,
                 calls, fastCalls, slowCalls>>

\* importer.go:28-30
FastPath ==
  /\ UNCHANGED dvars
  /\ stack # <<>>
  /\ Top.pc = "fast"
  /\ LET k == <<Top.path, FullDir(Top.dir)>> IN
     \E r \in Answers(fastRes, k) :
       /\ fastRes' = [fastRes EXCEPT ![k] = r]
       /\ fastCalls' = [fastCalls EXCEPT ![Top.path] = @ + 1]
       /\ IF r = "ok"
            THEN SetTop([Top EXCEPT !.pc = "store", !.fastOut = "ok",
                                    !.steps = Append(@, <<"fast", k[2]>>),
                                    !.pkg = FastPkg(Top.path, FullDir(Top.dir))])
            ELSE SetTop([Top EXCEPT !.pc = "discover", !.fastOut = "fail",
                                    !.steps = Append(@, <<"fast", k[2]>>)])
  /\ UNCHANGED <<packages, imports, errHandler, discRes, parseRes, typeRes, calls,
                 slowCalls, ret>>

\* importer.go:31-34, with a failed discovery sent back to the fast path.
DiscoverRetriesFast ==
  /\ UNCHANGED dvars
  /\ stack # <<>>
  /\ Top.pc = "discover"
  /\ LET k == <<Top.path, FullDir(Top.dir)>> IN
     \E r \in Answers(discRes, k) :
       /\ discRes' = [discRes EXCEPT ![k] = r]
       /\ slowCalls' = [slowCalls EXCEPT ![Top.path] = @ + 1]
       /\ SetTop([Top EXCEPT !.pc = IF r = "ok" THEN "parse" ELSE "fast",
                              !.discOut = r,
                              !.steps = Append(@, <<"discover", k[2]>>)])
       /\ UNCHANGED <<ret, packages>>
  /\ UNCHANGED <<imports, errHandler, fastRes, parseRes, typeRes, calls,
                 fastCalls>>

\* importer.go:31-34
Discover ==
  /\ UNCHANGED dvars
  /\ stack # <<>>
  /\ Top.pc = "discover"
  /\ LET k == <<Top.path, FullDir(Top.dir)>> IN
     \E r \in Answers(discRes, k) :
       /\ discRes' = [discRes EXCEPT ![k] = r]
       /\ slowCalls' = [slowCalls EXCEPT ![Top.path] = @ + 1]
       /\ IF r = "ok"
            THEN /\ SetTop([Top EXCEPT !.pc = "parse", !.discOut = "ok",
                                         !.steps = Append(@, <<"discover", k[2]>>)])
                 /\ UNCHANGED <<ret, packages>>
            ELSE FailReturn([Top EXCEPT !.discOut = "fail",
                                        !.steps = Append(@, <<"discover", k[2]>>)],
                            "discovery")
  /\ UNCHANGED <<imports, errHandler, fastRes, parseRes, typeRes, calls,
                 fastCalls>>

\* importer.go:37-41
Parse ==
  /\ UNCHANGED dvars
  /\ stack # <<>>
  /\ Top.pc = "parse"
  /\ \E r \in Answers(parseRes, Top.path) :
       /\ parseRes' = [parseRes EXCEPT ![Top.path] = r]
       /\ IF r = "ok"
            THEN /\ SetTop([Top EXCEPT !.pc = "check", !.parseOut = "ok",
                                         !.steps = Append(@, <<"parse", Top.path>>)])
                 /\ UNCHANGED <<ret, packages>>
            ELSE FailReturn([Top EXCEPT !.parseOut = "fail",
                                        !.steps = Append(@, <<"parse", Top.path>>)],
                            "parse")
  /\ UNCHANGED <<imports, errHandler, fastRes, discRes, typeRes, calls,
                 fastCalls, slowCalls>>

\* importer.go:42, i.config.Check resolving the next import of the package
\* through this same Importer.
CheckImport ==
  /\ UNCHANGED dvars
  /\ stack # <<>>
  /\ Top.pc = "check"
  /\ Top.idx <= Len(imports[Top.path])
  /\ errHandler \/ ~Top.cerr
  /\ Len(stack) < MaxDepth
  /\ stack' = Append(stack, NewFrame(imports[Top.path][Top.idx], PkgDir(Top.path)))
  /\ UNCHANGED <<packages, imports, errHandler, fastRes, discRes, parseRes, typeRes,
                 calls, fastCalls, slowCalls, ret>>

\* importer.go:42, i.config.Check returning: pkg takes the checked package
\* (complete or not); the error goes to the err of the enclosing block.
CheckDone ==
  /\ UNCHANGED dvars
  /\ stack # <<>>
  /\ Top.pc = "check"
  /\ \/ Top.idx > Len(imports[Top.path])
     \/ (Top.cerr /\ ~errHandler)
  /\ \E r \in (IF Top.cerr /\ ~errHandler THEN {"skipped"} ELSE Answers(typeRes, Top.path)) :
       /\ typeRes' = IF r = "skipped" THEN typeRes ELSE [typeRes EXCEPT ![Top.path] = r]
       /\ LET ok == ~Top.cerr /\ r = "ok" IN
          SetTop([Top EXCEPT !.pc = "store",
                             !.checkOut = IF ok THEN "ok" ELSE "fail",
                             !.steps = Append(@, <<"check", Top.path>>),
                             !.pkg = SourcePkg(Top.path, FullDir(Top.dir), ok)])
  /\ UNCHANGED <<packages, imports, errHandler, fastRes, discRes, parseRes, calls,
                 fastCalls, slowCalls, ret>>

\* importer.go:44-45
StoreSkipsFallback ==
  /\ UNCHANGED dvars
  /\ stack # <<>>
  /\ Top.pc = "store"
  /\ packages' = IF Top.pkg.prov = "source" THEN packages
                 ELSE [q \in DOMAIN packages \cup {Top.path} |->
                         IF q = Top.path THEN Top.pkg ELSE packages[q]]
  /\ Return(Top, Top.pkg, "nil", FALSE)
  /\ UNCHANGED <<imports, errHandler, fastRes, discRes, parseRes, typeRes, calls,
                 fastCalls, slowCalls>>

Store ==
  /\ UNCHANGED dvars
  /\ stack # <<>>
  /\ Top.pc = "store"
  /\ packages' = [q \in DOMAIN packages \cup {Top.path} |->
                    IF q = Top.path THEN Top.pkg ELSE packages[q]]
  /\ Return(Top, Top.pkg, "nil", FALSE)
  /\ UNCHANGED <<imports, errHandler, fastRes, discRes, parseRes, typeRes, calls,
                 fastCalls, slowCalls>>

\* Importer.Import answering from the cache when it can.
ImportThroughCache(p) ==
  /\ UNCHANGED dvars
  /\ stack = <<>>
  /\ calls < MaxCalls
  /\ calls' = calls + 1
  /\ \E r \in Answers(fastRes, <<p, NoDir>>) :
       /\ fastRes' = [fastRes EXCEPT ![<<p, NoDir>>] = r]
       /\ ret' = [NoRet EXCEPT !.valid = TRUE, !.entry = "Import", !.path = p,
                               !.fastOut = r, !.snap = packages,
                               !.pkg = IF p \in DOMAIN packages THEN packages[p]
                                       ELSE IF r = "ok" THEN FastPkg(p, NoDir) ELSE NoPkg,
                               !.err = IF p \in DOMAIN packages \/ r = "ok" THEN "nil"
                                       ELSE "fast"]
  /\ UNCHANGED <<packages, stack, imports, errHandler, discRes, parseRes, typeRes,
                 fastCalls, slowCalls>>

\* Importer.Import (importer.go:18-22), called from outside the Importer.
Import(p) ==
  /\ UNCHANGED dvars
  /\ stack = <<>>
  /\ calls < MaxCalls
  /\ calls' = calls + 1
  /\ \E r \in Answers(fastRes, <<p, NoDir>>) :
       /\ fastRes' = [fastRes EXCEPT ![<<p, NoDir>>] = r]
       /\ ret' = [NoRet EXCEPT !.valid = TRUE, !.entry = "Import", !.path = p,
                               !.fastOut = r, !.snap = packages,
                               !.pkg = IF r = "ok" THEN FastPkg(p, NoDir) ELSE NoPkg,
                               !.err = IF r = "ok" THEN "nil" ELSE "fast"]
  /\ UNCHANGED <<packages, stack, imports, errHandler, discRes, parseRes, typeRes,
                 fastCalls, slowCalls>>

Next ==
  \/ \E p \in Paths, d \in Dirs : Call(p, d)
  \/ \E p \in Paths : Import(p)
  \/ Lookup
  \/ FastPath
  \/ Discover
  \/ Parse
  \/ CheckImport
  \/ CheckDone
  \/ Store

\* ---------------------------------------------------------------- driver
\* Largest number of errors packages.Load returns in the roots of one run.
MaxErrs == 2

\* File paths are lists of path elements; an absolute path starts with "/",
\* the empty list is the empty string.
Running == -1

\* os.Getwd() of the process.
Cwd == <<"/", "w">>

\* Values of the -w flag: not given, or another directory.
WorkingDirs == {<<>>, <<"/", "o">>}

IsAbs(p) == p # <<>> /\ p[1] = "/"

Last(p) == p[Len(p)]

\* filepath.Clean on element lists: drops ".", resolves "..", and yields "."
\* for an empty result.
RECURSIVE CleanInto(_, _)
CleanInto(acc, rest) ==
  IF rest = <<>> THEN acc
  ELSE LET e == Head(rest) IN
       IF e = "." THEN CleanInto(acc, Tail(rest))
       ELSE IF e = ".."
         THEN IF acc # <<>> /\ Last(acc) = "/" THEN CleanInto(acc, Tail(rest))
              ELSE IF acc # <<>> /\ Last(acc) # ".."
                THEN CleanInto(SubSeq(acc, 1, Len(acc) - 1), Tail(rest))
                ELSE CleanInto(Append(acc, e), Tail(rest))
         ELSE CleanInto(Append(acc, e), Tail(rest))

Clean(p) == LET c == CleanInto(<<>>, p) IN IF c = <<>> THEN <<".">> ELSE c

\* filepath.Join of a directory and a relative path.
Join(a, b) == Clean(a \o b)

\* filepath.Dir
Dir(p) == IF p = <<>> THEN <<".">>
          ELSE IF p = <<"/">> THEN <<"/">>
          ELSE Clean(SubSeq(p, 1, Len(p) - 1))

\* filepath.Abs when os.Getwd succeeds (gotype2.go:204)
Abs(p) == IF IsAbs(p) THEN Clean(p) ELSE Join(Cwd, p)

\* strings.HasPrefix(path, "./")
HasDotSlashPrefix(p) == Len(p) >= 2 /\ p[1] = "."

\* strings.HasSuffix(targetFile, "_test.go")
TestNames == {"a_test.go"}

HasTestSuffix(p) == p # <<>> /\ Last(p) \in TestNames

\* os.Stat on the file system the process runs in.
DirNames == {"/", ".", "w", "o", "pkg"}

FileNames == {"a.go", "b.go", "a_test.go"}

Stat(p) == LET c == Clean(p) IN
           IF Last(c) \in DirNames THEN "dir"
           ELSE IF Last(c) \in FileNames THEN "file"
           ELSE "missing"

\* The command lines tried.
ArgLists == { <<>>,
              << <<"pkg">> >>,
              << <<".">> >>,
              << <<"a.go">> >>,
              << <<".", "a.go">> >>,
              << <<"pkg", "b.go">> >>,
              << <<".", "pkg", "a_test.go">> >>,
              << <<"/", "w", "pkg", "a.go">> >>,
              << <<"nope.go">> >>,
              << <<"a.go">>, <<"b.go">> >> }

\* getPkgFiles (gotype2.go:160-183)
GetPkgFiles(as, useContext) ==
  IF Len(as) = 1
    THEN LET path == as[1] IN
         IF Stat(path) = "missing"
           THEN [pkgPath |-> <<>>, targetFile |-> <<>>, err |-> "stat"]
         ELSE IF Stat(path) = "dir"
           THEN [pkgPath |-> path, targetFile |-> <<>>, err |-> "nil"]
         ELSE IF useContext
           THEN [pkgPath |-> IF HasDotSlashPrefix(path) THEN <<".">> \o Dir(path)
                                                        ELSE Dir(path),
                 targetFile |-> path, err |-> "nil"]
         ELSE [pkgPath |-> <<>>, targetFile |-> <<>>, err |-> "usage"]
    ELSE [pkgPath |-> <<>>, targetFile |-> <<>>, err |-> "usage"]

\* Errors.  kind "pkg" is a packages.Error, whose Pos is "file:line:col", or
\* "" when the error has no position; pos holds the fields between the colons
\* (strings.Split of "" yields one empty field).  Any other kind is a plain
\* error.  imp marks the error of an import that could not be resolved.
Line == "3"

Col == "8"

EmptyPos == << <<>> >>

PkgError(file, imp) == [kind |-> "pkg", pos |-> <<file, Line, Col>>, imp |-> imp]

PkgLevelError == [kind |-> "pkg", pos |-> EmptyPos, imp |-> FALSE]

PlainError(what) == [kind |-> what, pos |-> EmptyPos, imp |-> FALSE]

\* errFileParts[0] (gotype2.go:149-150)
ErrFilePath(e) == e.pos[1]

\* The test of report (gotype2.go:147-155): TRUE when the error is printed.
Admit(e, pathRestriction) ==
  ~(pathRestriction # <<>> /\ e.kind = "pkg" /\ ErrFilePath(e) # pathRestriction)

\* report (gotype2.go:146-158), counting before the filter.
ReportCountsSuppressed(e, pathRestriction) ==
  /\ reports' = Append(reports, [err |-> e, restr |-> pathRestriction,
                                 admitted |-> Admit(e, pathRestriction)])
  /\ out' = IF Admit(e, pathRestriction) THEN Append(out, e) ELSE out
  /\ errorCount' = errorCount + 1

\* report (gotype2.go:146-158)
Report(e, pathRestriction) ==
  /\ reports' = Append(reports, [err |-> e, restr |-> pathRestriction,
                                 admitted |-> Admit(e, pathRestriction)])
  /\ out' = IF Admit(e, pathRestriction) THEN Append(out, e) ELSE out
  /\ errorCount' = IF Admit(e, pathRestriction) THEN errorCount + 1 ELSE errorCount

NoLoad == [called |-> FALSE, dir |-> <<>>, tests |-> FALSE, pattern |-> <<>>]

\* The directory packages.Load resolves the pattern in.
UnitDir(cfgDir, pattern) == IF IsAbs(pattern) THEN Clean(pattern) ELSE Join(cfgDir, pattern)

\* The errors the loader may put in root.Errors for a unit: type errors in the
\* unit's files a.go and b.go under their absolute names, errors of the go
\* command under names relative to the load directory, and an error without
\* a position.
UnitFiles == {"a.go", "b.go"}

LoadErrors(cfgDir, pattern) ==
  {PkgError(UnitDir(cfgDir, pattern) \o <<n>>, i) : n \in UnitFiles, i \in BOOLEAN}
    \cup {PkgError(Clean(pattern \o <<"a.go">>), TRUE)}
    \cup {PkgLevelError}

SeqsUpTo(S, n) == UNION {[1..k -> S] : k \in 0..n}

\* gotype2.go:195, without the -a flag.
IncludeTestsIgnoresAuto(auto, target) == target # <<>> /\ HasTestSuffix(target)

\* gotype2.go:195
IncludeTests(auto, target) == auto /\ target # <<>> /\ HasTestSuffix(target)

DInit ==
  /\ args \in ArgLists
  /\ usePkgContext \in BOOLEAN
  /\ autoFiles \in BOOLEAN
  /\ workingDir \in WorkingDirs
  /\ getwdOK \in BOOLEAN
  /\ dpc = "main"
  /\ pkgPath = <<>> /\ targetFile = <<>> /\ unitErr = "nil"
  /\ loadCall = NoLoad /\ loaded = <<>> /\ pending = <<>>
  /\ out = <<>> /\ errorCount = 0 /\ reports = <<>>
  /\ exitStatus = Running

\* main, gotype2.go:226-230, without the os.Exit(2) of line 229.
MainGetPkgFilesNoExit ==
  /\ UNCHANGED ivars
  /\ dpc = "main"
  /\ LET r == GetPkgFiles(args, usePkgContext) IN
     /\ unitErr' = r.err
     /\ pkgPath' = r.pkgPath
     /\ targetFile' = r.targetFile
     /\ dpc' = "check"
     /\ IF r.err # "nil"
          THEN /\ Report(PlainError(r.err), <<>>)
               /\ UNCHANGED exitStatus
          ELSE UNCHANGED <<out, errorCount, reports, exitStatus>>
  /\ UNCHANGED <<args, usePkgContext, autoFiles, workingDir, getwdOK, loadCall, loaded,
                 pending>>

\* main, gotype2.go:226-230
MainGetPkgFiles ==
  /\ UNCHANGED ivars
  /\ dpc = "main"
  /\ LET r == GetPkgFiles(args, usePkgContext) IN
     /\ unitErr' = r.err
     /\ pkgPath' = r.pkgPath
     /\ targetFile' = r.targetFile
     /\ IF r.err # "nil"
          THEN /\ Report(PlainError(r.err), <<>>)
               /\ exitStatus' = 2
               /\ dpc' = "exit"
          ELSE /\ dpc' = "check"
               /\ UNCHANGED <<out, errorCount, reports, exitStatus>>
  /\ UNCHANGED <<args, usePkgContext, autoFiles, workingDir, getwdOK, loadCall, loaded,
                 pending>>

\* checkPkgFiles, gotype2.go:186-208: the working directory, the test
\* decision, the config, and targetFile made absolute.  A failing os.Getwd
\* panics when -w is not given (the runtime exits with status 2), and makes
\* filepath.Abs fail for a relative targetFile.
CheckPkgFilesSetup ==
  /\ UNCHANGED ivars
  /\ dpc = "check"
  /\ IF workingDir = <<>> /\ ~getwdOK
       THEN /\ dpc' = "exit"
            /\ exitStatus' = 2
            /\ UNCHANGED <<targetFile, loadCall, out, errorCount, reports>>
       ELSE LET wd == IF workingDir = <<>> THEN Cwd ELSE workingDir
                cfg == [called |-> FALSE, dir |-> wd,
                        tests |-> IncludeTests(autoFiles, targetFile), pattern |-> pkgPath]
            IN
            IF ~IsAbs(targetFile) /\ ~getwdOK
              THEN /\ targetFile' = <<>>
                   /\ Report(PlainError("abs"), <<>>)
                   /\ loadCall' = cfg
                   /\ dpc' = "return"
                   /\ UNCHANGED exitStatus
              ELSE /\ targetFile' = Abs(targetFile)
                   /\ loadCall' = cfg
                   /\ dpc' = "load"
                   /\ UNCHANGED <<out, errorCount, reports, exitStatus>>
  /\ UNCHANGED <<args, usePkgContext, autoFiles, workingDir, getwdOK, pkgPath, unitErr,
                 loaded, pending>>

\* checkPkgFiles, gotype2.go:210-214: packages.Load fails as a whole, or
\* returns roots whose errors are then reported one by one.
CheckPkgFilesLoad ==
  /\ UNCHANGED ivars
  /\ dpc = "load"
  /\ loadCall' = [loadCall EXCEPT !.called = TRUE]
  /\ \/ /\ Report(PlainError("load"), targetFile)
        /\ dpc' = "return"
        /\ UNCHANGED <<loaded, pending>>
     \/ /\ \E es \in SeqsUpTo(LoadErrors(loadCall.dir, loadCall.pattern), MaxErrs) :
             loaded' = es /\ pending' = es
        /\ dpc' = "report"
        /\ UNCHANGED <<out, errorCount, reports>>
  /\ UNCHANGED <<args, usePkgContext, autoFiles, workingDir, getwdOK, pkgPath, targetFile,
                 unitErr, exitStatus>>

\* checkPkgFiles, gotype2.go:215-219: one turn of the loops over root.Errors.
CheckPkgFilesReport ==
  /\ UNCHANGED ivars
  /\ dpc = "report"
  /\ IF pending = <<>>
       THEN /\ dpc' = "return"
            /\ UNCHANGED <<pending, out, errorCount, reports>>
       ELSE /\ Report(Head(pending), targetFile)
            /\ pending' = Tail(pending)
            /\ UNCHANGED dpc
  /\ UNCHANGED <<args, usePkgContext, autoFiles, workingDir, getwdOK, pkgPath, targetFile,
                 unitErr, loadCall, loaded, exitStatus>>

\* main, gotype2.go:233-236, with the test errorCount > 1.
MainExitOffByOne ==
  /\ UNCHANGED ivars
  /\ dpc = "return"
  /\ exitStatus' = IF errorCount > 1 THEN 2 ELSE 0
  /\ dpc' = "exit"
  /\ UNCHANGED <<args, usePkgContext, autoFiles, workingDir, getwdOK, pkgPath, targetFile,
                 unitErr, loadCall, loaded, pending, out, errorCount, reports>>

\* main, gotype2.go:233-236
MainExit ==
  /\ UNCHANGED ivars
  /\ dpc = "return"
  /\ exitStatus' = IF errorCount > 0 THEN 2 ELSE 0
  /\ dpc' = "exit"
  /\ UNCHANGED <<args, usePkgContext, autoFiles, workingDir, getwdOK, pkgPath, targetFile,
                 unitErr, loadCall, loaded, pending, out, errorCount, reports>>

DriverNext ==
  \/ MainGetPkgFiles
  \/ CheckPkgFilesSetup
  \/ CheckPkgFilesLoad
  \/ CheckPkgFilesReport
  \/ MainExit

\* The Importer is idle in the driver's specification: main never builds one.
IIdle ==
  /\ packages = <<>> /\ stack = <<>> /\ imports = Diamond /\ errHandler = FALSE
  /\ fastRes = [k \in Paths \X (FullDirs \cup {NoDir}) |-> "unk"]
  /\ discRes = [k \in Paths \X FullDirs |-> "unk"]
  /\ parseRes = [p \in Paths |-> "unk"]
  /\ typeRes = [p \in Paths |-> "unk"]
  /\ calls = 0
  /\ fastCalls = [p \in Paths |-> 0]
  /\ slowCalls = [p \in Paths |-> 0]
  /\ ret = NoRet

DriverInit == DInit /\ IIdle

DriverSpec == DriverInit /\ [][DriverNext]_vars

\* The driver is not running in the Importer's specification.
DIdle ==
  /\ args = <<>> /\ usePkgContext = TRUE /\ autoFiles = TRUE /\ workingDir = <<>>
  /\ getwdOK = TRUE /\ dpc = "off" /\ pkgPath = <<>> /\ targetFile = <<>>
  /\ unitErr = "nil" /\ loadCall = NoLoad /\ loaded = <<>> /\ pending = <<>>
  /\ out = <<>> /\ errorCount = 0 /\ reports = <<>> /\ exitStatus = Running

Init == IInit /\ DIdle

Spec == Init /\ [][Next]_vars

\* ------------------------------------------------------------ the Importer
\* C1 (as stated): over a whole run the fast path and the slow path are each
\* invoked at most once per import path.
C1_AtMostOncePerPath ==
  \A p \in Paths : fastCalls[p] <= 1 /\ slowCalls[p] <= 1

\* C1 (amended): once an import path has a cache entry, no step invokes the
\* fast path or the slow path for it again, and a request for it returns the
\* cached handle with a nil error.
C1_NoResolutionOnceCached ==
  [][/\ \A p \in DOMAIN packages :
          fastCalls'[p] = fastCalls[p] /\ slowCalls'[p] = slowCalls[p]
     /\ (stack # <<>> /\ Top.pc = "lookup" /\ Top.path \in DOMAIN packages)
          => /\ ret'.valid /\ ret'.hit /\ ret'.err = "nil"
             /\ ret'.path = Top.path
             /\ ret'.pkg = packages[Top.path]
             /\ Len(stack') < Len(stack)]_vars

\* A second request for a path found it in the cache after exactly one fast
\* path invocation.
C1_Witness ==
  /\ ret.valid /\ ret.hit
  /\ fastCalls[ret.path] = 1
  /\ calls >= 2

\* C2: when the fast path fails, discovery and parsing succeed and the type
\* check reports an error, ImportFrom returns an error and the cache holds no
\* entry for the path.
C2_CheckErrorPropagates ==
  (ret.valid /\ ~ret.hit /\ ret.fastOut = "fail" /\ ret.discOut = "ok"
     /\ ret.parseOut = "ok" /\ ret.checkOut = "fail")
    => (ret.err # "nil" /\ ret.path \notin DOMAIN packages)

\* C7: when the fast path fails and discovery, parsing and the type check all
\* succeed, ImportFrom returns a nil error and the successfully typed package
\* made by the slow path, and that package is the cache entry of the path.
C7_FallbackCorrect ==
  (ret.valid /\ ~ret.hit /\ ret.fastOut = "fail" /\ ret.discOut = "ok"
     /\ ret.parseOut = "ok" /\ ret.checkOut = "ok")
    => /\ ret.err = "nil"
       /\ ret.pkg = SourcePkg(ret.path, FullDir(ret.dir), TRUE)
       /\ ret.path \in DOMAIN packages
       /\ packages[ret.path] = ret.pkg

\* A fallback that succeeded for a package with imports, below another check.
C7_Witness ==
  /\ ret.valid /\ ~ret.hit /\ ret.fastOut = "fail" /\ ret.checkOut = "ok"
  /\ ret.err = "nil"
  /\ imports[ret.path] # <<>>

\* What C8 says of the activation that returned last.
C8_Returned ==
  (ret.valid /\ (ret.discOut = "fail" \/ ret.parseOut = "fail"))
    => /\ ret.err = (IF ret.discOut = "fail" THEN "discovery" ELSE "parse")
       /\ ret.pkg = NoPkg
       /\ packages = ret.snap
       /\ ret.path \notin DOMAIN packages

\* C8: a failed discovery or parse makes ImportFrom return that error with the
\* cache exactly as it was when the call began, and a request for a path that
\* has no cache entry goes to the fast path again.
C8_FailureNotCached ==
  [][/\ C8_Returned'
     /\ (stack # <<>> /\ Top.pc = "lookup" /\ Top.path \notin DOMAIN packages)
          => /\ Len(stack') = Len(stack)
             /\ stack'[Len(stack')].pc = "fast"
             /\ packages' = packages]_vars

\* A path whose discovery failed twice: the second request repeated it all.
C8_Witness ==
  /\ ret.valid /\ ret.discOut = "fail"
  /\ slowCalls[ret.path] >= 2 /\ fastCalls[ret.path] >= 2
  /\ ret.path \notin DOMAIN packages

\* C9: a cache entry, once made, is never removed and never replaced by a
\* different handle.
C9_EntriesNeverChange ==
  [][\A p \in DOMAIN packages :
       p \in DOMAIN packages' /\ packages'[p] = packages[p]]_vars

\* --------------------------------------------------------------- the driver
DirMode == Len(args) = 1 /\ Stat(args[1]) = "dir"

FileMode == Len(args) = 1 /\ Stat(args[1]) = "file" /\ usePkgContext

Positioned(e) == e.kind = "pkg" /\ e.pos # EmptyPos

\* C3: with a directory argument every report call has the empty restriction
\* and prints its diagnostic; with a file argument the pattern loaded is the
\* file's directory and the restriction of every report call is that file.
C3_UnitSelection ==
  getwdOK =>
    /\ DirMode =>
         \A i \in DOMAIN reports : reports[i].restr = <<>> /\ reports[i].admitted
    /\ (FileMode /\ loadCall.called) =>
         /\ Clean(loadCall.pattern) = Dir(args[1])
         /\ \A i \in DOMAIN reports : reports[i].restr = Abs(args[1])

\* C4: a diagnostic without a file position is printed and counted whatever
\* the non-empty restriction is.
C4_UnpositionedSurfaced ==
  \A i \in DOMAIN reports :
    (reports[i].restr # <<>> /\ ~Positioned(reports[i].err)) => reports[i].admitted

\* C5: with the restriction set to a file, a positioned diagnostic is printed
\* exactly when its file and the restriction name the same absolute path.
C5_PositionedScoping ==
  (FileMode /\ getwdOK /\ workingDir = <<>>) =>
    \A i \in DOMAIN reports :
      Positioned(reports[i].err) =>
        (reports[i].admitted <=> Abs(ErrFilePath(reports[i].err)) = Abs(args[1]))

\* C6: with no path argument unit determination succeeds without a
\* restriction file, and a unit without errors ends the run with status 0 and
\* nothing printed.
C6_StdinMode ==
  (args = <<>> /\ dpc # "main") =>
    /\ unitErr = "nil"
    /\ targetFile = <<>>
    /\ (dpc = "exit" /\ loaded = <<>>) => (out = <<>> /\ exitStatus = 0)

ImportErrors(es) == {i \in DOMAIN es : es[i].imp}

\* C10: when the unit has one import that cannot be resolved, in the file
\* asked about or in a directory unit, the run prints exactly one error for
\* that import and ends with a non-zero status.
C10_UnresolvableImport ==
  (/\ dpc = "exit" /\ getwdOK /\ workingDir = <<>> /\ loadCall.called
   /\ Cardinality(ImportErrors(loaded)) = 1
   /\ \/ DirMode
      \/ /\ FileMode
         /\ \A i \in ImportErrors(loaded) : Abs(ErrFilePath(loaded[i])) = Abs(args[1]))
    => (Cardinality(ImportErrors(out)) = 1 /\ exitStatus # 0)

\* The run ended in the panic of checkPkgFiles (gotype2.go:189-192).
Panicked == dpc = "exit" /\ unitErr = "nil" /\ workingDir = <<>> /\ ~getwdOK

C15_CounterAccounting ==
  [][/\ errorCount' = Len(out')
     /\ IF Len(reports') = Len(reports) + 1
          THEN LET r == reports'[Len(reports')] IN
               IF ~(r.restr # <<>> /\ r.err.kind = "pkg" /\ r.err.pos[1] # r.restr)
                 THEN errorCount' = errorCount + 1 /\ out' = Append(out, r.err)
                 ELSE errorCount' = errorCount /\ out' = out
          ELSE errorCount' = errorCount /\ out' = out /\ reports' = reports]_vars

\* One diagnostic was suppressed and a later one printed.
C15_Witness ==
  /\ Len(reports) = 2 /\ ~reports[1].admitted /\ reports[2].admitted
  /\ errorCount = 1

\* ------------------------------------------------- the Importer, continued
StepOrder == <<"fast", "discover", "parse", "check">>

StepNames(f) == [i \in DOMAIN f.steps |-> f.steps[i][1]]

\* The steps one activation has taken are a beginning of fast, discovery,
\* parse, type check, each started only after the outcome that leads to it.
OneShot(f) ==
  /\ Len(f.steps) <= 4
  /\ StepNames(f) = SubSeq(StepOrder, 1, Len(f.steps))
  /\ Len(f.steps) >= 2 => f.fastOut = "fail"
  /\ Len(f.steps) >= 3 => f.discOut = "ok"
  /\ Len(f.steps) >= 4 => f.parseOut = "ok"

\* C16: an ImportFrom call that misses the cache invokes the fast path once
\* and first, starts the slow path only after a fast path error, and runs
\* discovery, parse and type check in that order, each at most once and only
\* after the one before succeeded.
C16_OneShotFallback ==
  /\ \A i \in DOMAIN stack : OneShot(stack[i])
  /\ (ret.valid /\ ret.entry = "ImportFrom") =>
       /\ OneShot(ret)
       /\ ret.hit <=> ret.steps = <<>>
       /\ ret.fastOut = "ok" => Len(ret.steps) = 1
       /\ ret.discOut = "fail" => Len(ret.steps) = 2
       /\ ret.parseOut = "fail" => Len(ret.steps) = 3
       /\ ret.checkOut # "none" => Len(ret.steps) = 4

\* An activation went through all four steps below another one's type check.
C16_Witness ==
  /\ ret.valid /\ Len(ret.steps) = 4 /\ ret.depth >= 2

\* C17: on the acyclic graph, when the slow path is about to insert the entry
\* of a package, every import its type check requested already has its entry.
C17_DependenciesFirst ==
  \A i \in DOMAIN stack :
    (imports = Diamond /\ stack[i].pc = "store" /\ stack[i].pkg.prov = "source") =>
      \A j \in 1..(stack[i].idx - 1) : imports[stack[i].path][j] \in DOMAIN packages

\* C18: no activation enters the slow path for a path and directory whose
\* slow path is already in progress further out on the stack.
C18_NoReentry ==
  \A i, j \in DOMAIN stack :
    (i < j /\ stack[i].path = stack[j].path /\ stack[i].dir = stack[j].dir
       /\ stack[i].pc = "check")
      => stack[j].discOut = "none"

\* C19 (as stated): the fast path and source discovery are only ever given,
\* for one import path, the directory of its first requester.
C19_FirstRequesterDirOnly ==
  \A p \in Paths :
    /\ Cardinality({fd \in FullDirs : fastRes[<<p, fd>>] # "unk"}) <= 1
    /\ Cardinality({fd \in FullDirs : discRes[<<p, fd>>] # "unk"}) <= 1

\* The directory every fast path and discovery step of an activation was
\* given is Importer.cwd joined with the srcDir of that activation.
OwnDir(f) ==
  \A i \in DOMAIN f.steps :
    f.steps[i][1] \in {"fast", "discover"} => f.steps[i][2] = ImporterCwd \o f.dir

\* C19 (amended): a request for a cached path returns the cached handle
\* whatever its directory, asking neither collaborator; the directory given to
\* the fast path and to discovery is Importer.cwd joined with the directory of
\* the request being resolved, and an entry records the directory of the
\* request that stored it.
C19_CacheKeyedByPathAlone ==
  [][/\ (stack # <<>> /\ Top.pc = "lookup" /\ Top.path \in DOMAIN packages)
          => /\ ret'.pkg = packages[Top.path]
             /\ ret'.dir = Top.dir
             /\ fastRes' = fastRes /\ discRes' = discRes
     /\ (stack # <<>> /\ Top.pc = "store")
          => packages'[Top.path].dir = ImporterCwd \o Top.dir
     /\ \A i \in DOMAIN stack' : OwnDir(stack'[i])
     /\ ret'.entry = "ImportFrom" => OwnDir(ret')]_vars

\* A request from one directory got the handle resolved for another.
C19_Witness ==
  /\ ret.valid /\ ret.hit
  /\ ret.pkg.dir # ImporterCwd \o ret.dir
  /\ fastRes[<<ret.path, ImporterCwd \o ret.dir>>] = "unk"

====
